---- MODULE Spec2Model ----
(***************************************************************************)
(* Model of src-tauri/src/lib.rs: the `greet` command and the setup        *)
(* closure of `run`, which places the "main" window on the work area of    *)
(* the current (or else the primary) monitor and then shows it.            *)
(*                                                                         *)
(* Option<T> values are sets with at most one element ({} is None).        *)
(* Result<T, E> values are records [ok, val]; the error payload is never   *)
(* inspected by the code and is not modelled.                              *)
(***************************************************************************)
EXTENDS Integers, Naturals, Sequences, FiniteSets, TLC

VARIABLES
    pc,         \* position inside the setup closure
    window,     \* Option<WebviewWindow>: result of get_webview_window("main")
    monitor,    \* Option<Monitor>: the local `monitor`
    work_area,  \* Option<PhysicalRect>: the local `work_area`
    winPos,     \* position of the main window
    winSize,    \* size of the main window
    winVisible, \* visibility of the main window
    prior,      \* history: window placement before the closure ran
    curRes,     \* history: Option of the result of current_monitor()
    priRes,     \* history: Option of the result of primary_monitor()
    calls,      \* history: the calls made on the window, in order
    ret,        \* Option<Result>: what the closure returned to the host
    name,       \* argument of the greet command being served
    greeting    \* Option<String>: reply of the greet command

vars == <<pc, window, monitor, work_area, winPos, winSize, winVisible,
          prior, curRes, priRes, calls, ret, name, greeting>>

setupVars == <<pc, window, monitor, work_area, winPos, winSize, winVisible,
               prior, curRes, priRes, calls, ret>>

greetVars == <<name, greeting>>

----------------------------------------------------------------------------
(* Bounds *)

MaxCoord == 1   \* monitor origins have x in 0..MaxCoord
MaxDim == 2     \* monitor widths and heights are in 1..MaxDim
MaxInset == 1   \* rows reserved by the OS at the top of a monitor
MaxLen == 3     \* longest name passed to greet

----------------------------------------------------------------------------
(* Option and Result *)

None == {}
Some(v) == {v}

Ok(v) == [ok |-> TRUE, val |-> v]
Err == [ok |-> FALSE, val |-> None]

\* Result::ok: Ok(v) becomes Some(v), Err(_) becomes None.
ResultOk(r) == IF r.ok THEN Some(r.val) ELSE None

\* Option::flatten: Some(Some(v)) becomes Some(v), anything else None.
Flatten(oo) == UNION oo

----------------------------------------------------------------------------
(* Monitors *)

Rect(x, y, w, h) == [position |-> <<x, y>>, size |-> <<w, h>>]

\* A monitor has its full bounds (position, size) and its work area, the
\* bounds minus the rows the OS reserves.
Monitors ==
    { [position |-> <<x, 0>>, size |-> <<w, h>>,
       work_area |-> Rect(x, i, w, h - i)] :
        x \in 0..MaxCoord, w \in 1..MaxDim, h \in 1..MaxDim, i \in 0..MaxInset }

ValidMonitors == { m \in Monitors : m.work_area.size[2] >= 1 }

Points == (0..MaxCoord) \X (0..MaxInset)
Sizes == (1..MaxDim) \X (1..MaxDim)

\* Results of current_monitor() and primary_monitor():
\* Err(_), Ok(None) and Ok(Some(m)).
LookupResults == {Err, Ok(None)} \cup { Ok(Some(m)) : m \in ValidMonitors }

----------------------------------------------------------------------------
(* History of calls *)

Call(op, arg, ok) == [op |-> op, arg |-> arg, ok |-> ok]

CallsOf(op) == { i \in DOMAIN calls : calls[i].op = op }
Count(op) == Cardinality(CallsOf(op))

----------------------------------------------------------------------------
(* greet *)

Alphabet == {"A", "{", "}", "%"}

RECURSIVE SeqsUpTo(_)
SeqsUpTo(n) ==
    IF n = 0 THEN {<<>>}
    ELSE LET shorter == SeqsUpTo(n - 1)
         IN shorter \cup { Append(s, c) : s \in { t \in shorter : Len(t) = n - 1 },
                                           c \in Alphabet }

Names == SeqsUpTo(MaxLen)

\* The format string of greet, one character per element.
Template ==
    <<"H", "e", "l", "l", "o", ",", " ", "{", "}", "!", " ",
      "Y", "o", "u", "'", "v", "e", " ", "b", "e", "e", "n", " ",
      "g", "r", "e", "e", "t", "e", "d", " ", "f", "r", "o", "m", " ",
      "R", "u", "s", "t", "!">>

\* format! parses its template once: "{{" and "}}" are escaped braces, "{}"
\* is the next positional argument, everything else is literal text.  The
\* argument is written with Display, which for a string slice without width
\* or precision writes the slice as it is; its text is never parsed again.
RECURSIVE Format(_, _, _)
Format(t, i, arg) ==
    IF i > Len(t) THEN <<>>
    ELSE IF i < Len(t) /\ t[i] = "{" /\ t[i + 1] = "{"
        THEN <<"{">> \o Format(t, i + 2, arg)
    ELSE IF i < Len(t) /\ t[i] = "}" /\ t[i + 1] = "}"
        THEN <<"}">> \o Format(t, i + 2, arg)
    ELSE IF i < Len(t) /\ t[i] = "{" /\ t[i + 1] = "}"
        THEN arg \o Format(t, i + 2, arg)
    ELSE <<t[i]>> \o Format(t, i + 1, arg)

\* Variant: the name is spliced into the format string, which is parsed
\* afterwards, so braces of the name are read as format syntax.
greet_Reparse(n) ==
    Format(SubSeq(Template, 1, 7) \o n \o SubSeq(Template, 10, Len(Template)),
           1, <<>>)

greet(n) == Format(Template, 1, n)

----------------------------------------------------------------------------
(* Initial states *)

InitSetup ==
    /\ pc = "get_webview_window"
    /\ window = None
    /\ monitor = None
    /\ work_area = None
    /\ winPos \in Points
    /\ winSize \in Sizes
    /\ winVisible \in BOOLEAN
    /\ prior = [position |-> winPos, size |-> winSize, visible |-> winVisible]
    /\ curRes = None
    /\ priRes = None
    /\ calls = <<>>
    /\ ret = None

Init ==
    /\ InitSetup
    /\ name = <<>>
    /\ greeting = None

----------------------------------------------------------------------------
(* The setup closure, one action per step *)

\* Variant: the lookups run whether or not the window was found.
GetWindow_Unchecked ==
    /\ pc = "get_webview_window"
    /\ \E w \in {None, Some("main")} :
        /\ window' = w
        /\ pc' = "current_monitor"
    /\ UNCHANGED greetVars
    /\ UNCHANGED <<monitor, work_area, winPos, winSize, winVisible, prior,
                   curRes, priRes, calls, ret>>

\* if let Some(window) = app.get_webview_window("main") { ... }
GetWindow ==
    /\ pc = "get_webview_window"
    /\ \E w \in {None, Some("main")} :
        /\ window' = w
        /\ pc' = IF w # None THEN "current_monitor" ELSE "return"
    /\ UNCHANGED greetVars
    /\ UNCHANGED <<monitor, work_area, winPos, winSize, winVisible, prior,
                   curRes, priRes, calls, ret>>

\* Variant: `or` in place of `or_else`, the primary monitor is always asked.
CurrentMonitor_Eager ==
    /\ pc = "current_monitor"
    /\ \E r \in LookupResults :
        /\ curRes' = Some(r)
        /\ monitor' = Flatten(ResultOk(r))
        /\ calls' = Append(calls, Call("current_monitor", <<>>, r.ok))
    /\ pc' = "primary_monitor"
    /\ UNCHANGED greetVars
    /\ UNCHANGED <<window, work_area, winPos, winSize, winVisible, prior,
                   priRes, ret>>

\* window.current_monitor().ok().flatten()
CurrentMonitor ==
    /\ pc = "current_monitor"
    /\ \E r \in LookupResults :
        /\ curRes' = Some(r)
        /\ monitor' = Flatten(ResultOk(r))
        /\ calls' = Append(calls, Call("current_monitor", <<>>, r.ok))
    /\ pc' = IF monitor' # None THEN "if_monitor" ELSE "primary_monitor"
    /\ UNCHANGED greetVars
    /\ UNCHANGED <<window, work_area, winPos, winSize, winVisible, prior,
                   priRes, ret>>

\* .or_else(|| window.primary_monitor().ok().flatten())
PrimaryMonitor ==
    /\ pc = "primary_monitor"
    /\ \E r \in LookupResults :
        /\ priRes' = Some(r)
        /\ monitor' = Flatten(ResultOk(r))
        /\ calls' = Append(calls, Call("primary_monitor", <<>>, r.ok))
    /\ pc' = "if_monitor"
    /\ UNCHANGED greetVars
    /\ UNCHANGED <<window, work_area, winPos, winSize, winVisible, prior,
                   curRes, ret>>

\* Variant: `show` moved inside the `if let Some(monitor)` block.
IfMonitor_ShowInside ==
    /\ pc = "if_monitor"
    /\ IF monitor # None
        THEN /\ work_area' = { m.work_area : m \in monitor }
             /\ pc' = "set_position"
        ELSE /\ work_area' = work_area
             /\ pc' = "return"
    /\ UNCHANGED greetVars
    /\ UNCHANGED <<window, monitor, winPos, winSize, winVisible, prior,
                   curRes, priRes, calls, ret>>

\* Variant: the monitor's full bounds are used in place of its work area.
IfMonitor_FullBounds ==
    /\ pc = "if_monitor"
    /\ IF monitor # None
        THEN /\ work_area' = { [position |-> m.position, size |-> m.size] :
                                 m \in monitor }
             /\ pc' = "set_position"
        ELSE /\ work_area' = work_area
             /\ pc' = "show"
    /\ UNCHANGED greetVars
    /\ UNCHANGED <<window, monitor, winPos, winSize, winVisible, prior,
                   curRes, priRes, calls, ret>>

\* Variant: a default rectangle is applied when no monitor was found.
IfMonitor_DefaultRect ==
    /\ pc = "if_monitor"
    /\ IF monitor # None
        THEN work_area' = { m.work_area : m \in monitor }
        ELSE work_area' = Some(Rect(0, 0, 1, 1))
    /\ pc' = "set_position"
    /\ UNCHANGED greetVars
    /\ UNCHANGED <<window, monitor, winPos, winSize, winVisible, prior,
                   curRes, priRes, calls, ret>>

\* if let Some(monitor) = monitor { let work_area = monitor.work_area(); ... }
IfMonitor ==
    /\ pc = "if_monitor"
    /\ IF monitor # None
        THEN /\ work_area' = { m.work_area : m \in monitor }
             /\ pc' = "set_position"
        ELSE /\ work_area' = work_area
             /\ pc' = "show"
    /\ UNCHANGED greetVars
    /\ UNCHANGED <<window, monitor, winPos, winSize, winVisible, prior,
                   curRes, priRes, calls, ret>>

\* Variant: `window.set_position(..)?`-like abort, a failed set_position
\* skips set_size.
SetPosition_Abort ==
    /\ pc = "set_position"
    /\ \E ok \in BOOLEAN, wa \in work_area :
        /\ calls' = Append(calls, Call("set_position", wa.position, ok))
        /\ winPos' = IF ok THEN wa.position ELSE winPos
        /\ pc' = IF ok THEN "set_size" ELSE "show"
    /\ UNCHANGED greetVars
    /\ UNCHANGED <<window, monitor, work_area, winSize, winVisible, prior,
                   curRes, priRes, ret>>

\* Variant: a failed set_position is tried a second time.
SetPosition_RetryOnce ==
    /\ pc = "set_position"
    /\ \E ok \in BOOLEAN, wa \in work_area :
        /\ calls' = Append(calls, Call("set_position", wa.position, ok))
        /\ winPos' = IF ok THEN wa.position ELSE winPos
        /\ pc' = IF ~ok /\ Count("set_position") = 0
                 THEN "set_position" ELSE "set_size"
    /\ UNCHANGED greetVars
    /\ UNCHANGED <<window, monitor, work_area, winSize, winVisible, prior,
                   curRes, priRes, ret>>

\* let _ = window.set_position(work_area.position);
SetPosition ==
    /\ pc = "set_position"
    /\ \E ok \in BOOLEAN, wa \in work_area :
        /\ calls' = Append(calls, Call("set_position", wa.position, ok))
        /\ winPos' = IF ok THEN wa.position ELSE winPos
    /\ pc' = "set_size"
    /\ UNCHANGED greetVars
    /\ UNCHANGED <<window, monitor, work_area, winSize, winVisible, prior,
                   curRes, priRes, ret>>

\* Variant: `monitor.size()` in place of `work_area.size`.
SetSize_MonitorSize ==
    /\ pc = "set_size"
    /\ \E ok \in BOOLEAN, m \in monitor :
        /\ calls' = Append(calls, Call("set_size", m.size, ok))
        /\ winSize' = IF ok THEN m.size ELSE winSize
    /\ pc' = "show"
    /\ UNCHANGED greetVars
    /\ UNCHANGED <<window, monitor, work_area, winPos, winVisible, prior,
                   curRes, priRes, ret>>

\* let _ = window.set_size(work_area.size);
SetSize ==
    /\ pc = "set_size"
    /\ \E ok \in BOOLEAN, wa \in work_area :
        /\ calls' = Append(calls, Call("set_size", wa.size, ok))
        /\ winSize' = IF ok THEN wa.size ELSE winSize
    /\ pc' = "show"
    /\ UNCHANGED greetVars
    /\ UNCHANGED <<window, monitor, work_area, winPos, winVisible, prior,
                   curRes, priRes, ret>>

\* Variant: `window.show()?`, a failed show is returned to the host.
Show_Propagate ==
    /\ pc = "show"
    /\ \E ok \in BOOLEAN :
        /\ calls' = Append(calls, Call("show", <<>>, ok))
        /\ winVisible' = IF ok THEN TRUE ELSE winVisible
        /\ pc' = IF ok THEN "return" ELSE "done"
        /\ ret' = IF ok THEN ret ELSE Some(Err)
    /\ UNCHANGED greetVars
    /\ UNCHANGED <<window, monitor, work_area, winPos, winSize, prior,
                   curRes, priRes>>

\* let _ = window.show();
Show ==
    /\ pc = "show"
    /\ \E ok \in BOOLEAN :
        /\ calls' = Append(calls, Call("show", <<>>, ok))
        /\ winVisible' = IF ok THEN TRUE ELSE winVisible
    /\ pc' = "return"
    /\ UNCHANGED greetVars
    /\ UNCHANGED <<window, monitor, work_area, winPos, winSize, prior,
                   curRes, priRes, ret>>

\* Ok(())
Return ==
    /\ pc = "return"
    /\ ret' = Some(Ok(<<>>))
    /\ pc' = "done"
    /\ UNCHANGED greetVars
    /\ UNCHANGED <<window, monitor, work_area, winPos, winSize, winVisible,
                   prior, curRes, priRes, calls>>

Next ==
    \/ GetWindow
    \/ CurrentMonitor
    \/ PrimaryMonitor
    \/ IfMonitor
    \/ SetPosition
    \/ SetSize
    \/ Show
    \/ Return

Spec == Init /\ [][Next]_vars

\* The closure is straight-line synchronous code run once by the host: every
\* step that is enabled is eventually taken.
FairSpec == Spec /\ WF_vars(Next)

----------------------------------------------------------------------------
(* The greet command *)

GreetInit ==
    /\ InitSetup
    /\ name \in Names
    /\ greeting = None

Greet ==
    /\ greeting = None
    /\ greeting' = Some(greet(name))
    /\ UNCHANGED name
    /\ UNCHANGED setupVars

GreetNext == Greet

GreetSpec == GreetInit /\ [][GreetNext]_vars

----------------------------------------------------------------------------
(* Properties *)

\* What a lookup result yields as a monitor, as the code reads it.
Yielded(res) == UNION { Flatten(ResultOk(r)) : r \in res }

Attempted(res) == res # None

Placed == pc \in {"show", "return", "done"}

TypeOK ==
    /\ pc \in {"get_webview_window", "current_monitor", "primary_monitor",
               "if_monitor", "set_position", "set_size", "show", "return",
               "done"}
    /\ window \in {None, Some("main")}
    /\ monitor \in {None} \cup { Some(m) : m \in ValidMonitors }
    /\ winPos \in Points
    /\ winSize \in Sizes
    /\ winVisible \in BOOLEAN
    /\ ret \in {None, Some(Ok(<<>>)), Some(Err)}

\* C1: when the main window exists, show is called exactly once in a run,
\* and after every set_position and set_size of that run, whether placement
\* succeeded, partly failed or was skipped.
C1_ShowOnceAfterPlacement ==
    /\ Count("show") <= 1
    /\ (pc \in {"return", "done"} /\ window # None) => Count("show") = 1
    /\ \A i \in CallsOf("show") :
        \A j \in CallsOf("set_position") \cup CallsOf("set_size") : j < i

C1_Witness ==
    /\ pc = "done"
    /\ window # None
    /\ Count("show") = 1
    /\ \E i \in CallsOf("set_position") : ~calls[i].ok
    /\ \E j \in CallsOf("set_size") : calls[j].ok

\* C2: when current_monitor() returns a monitor, its work area is what is
\* passed to set_position and set_size (and what the window has when they
\* succeed) and primary_monitor() is never called; primary_monitor() is only
\* called after current_monitor() was called and yielded no monitor.
C2_CurrentWins ==
    /\ \A m \in Yielded(curRes) :
        /\ priRes = None
        /\ Count("primary_monitor") = 0
        /\ \A i \in CallsOf("set_position") :
            /\ calls[i].arg = m.work_area.position
            /\ calls[i].ok => winPos = m.work_area.position
        /\ \A j \in CallsOf("set_size") :
            /\ calls[j].arg = m.work_area.size
            /\ calls[j].ok => winSize = m.work_area.size
        /\ Placed => Count("set_position") = 1 /\ Count("set_size") = 1
    /\ \A j \in CallsOf("primary_monitor") :
        /\ \E i \in CallsOf("current_monitor") : i < j
        /\ Attempted(curRes) /\ Yielded(curRes) = None

C2_Witness ==
    /\ pc = "done"
    /\ \E m \in Yielded(curRes) :
        /\ m.work_area.position # m.position
        /\ winPos = m.work_area.position
        /\ winSize = m.work_area.size
        /\ winPos # prior.position
        /\ winSize # prior.size

\* C3: when current_monitor() fails or returns none and primary_monitor()
\* returns a monitor, the primary monitor's work-area position and size are
\* passed to set_position and set_size, and when both succeed the window has
\* exactly that position and size when it is shown.
C3_PrimaryFallback ==
    (Attempted(curRes) /\ Yielded(curRes) = None) =>
        \A m \in Yielded(priRes) :
            /\ \A i \in CallsOf("set_position") :
                calls[i].arg = m.work_area.position
            /\ \A j \in CallsOf("set_size") :
                calls[j].arg = m.work_area.size
            /\ Placed =>
                /\ Count("set_position") = 1
                /\ Count("set_size") = 1
                /\ (\A i \in CallsOf("set_position") \cup CallsOf("set_size") :
                        calls[i].ok)
                    => /\ winPos = m.work_area.position
                       /\ winSize = m.work_area.size

C3_Witness ==
    /\ pc = "show"
    /\ curRes = Some(Err)
    /\ \E m \in Yielded(priRes) :
        /\ m.work_area.size # m.size
        /\ winPos = m.work_area.position
        /\ winSize = m.work_area.size
        /\ winPos # prior.position
        /\ winSize # prior.size
    /\ \A i \in CallsOf("set_position") \cup CallsOf("set_size") : calls[i].ok

\* C4: when neither lookup yields a monitor, set_position and set_size are
\* not called, the window keeps the position and size it had before the
\* routine ran, and show is still called.
C4_NoMonitorSkipsPlacement ==
    (/\ Attempted(curRes) /\ Yielded(curRes) = None
     /\ Attempted(priRes) /\ Yielded(priRes) = None) =>
        /\ Count("set_position") = 0
        /\ Count("set_size") = 0
        /\ winPos = prior.position
        /\ winSize = prior.size
        /\ pc \in {"return", "done"} =>
            /\ Count("show") = 1
            /\ \A i \in CallsOf("show") : calls[i].ok => winVisible

C4_Witness ==
    /\ pc = "done"
    /\ curRes = Some(Ok(None))
    /\ priRes = Some(Err)
    /\ Count("show") = 1
    /\ winVisible /\ ~prior.visible

\* C5: once a monitor is obtained both set_position and set_size are called
\* whatever the other returns: a failed set_position leaves the position as
\* it was while the size is still applied, and a failed set_size neither
\* prevents nor undoes the set_position.
C5_IndependentMutations ==
    (monitor # None /\ Placed) =>
        /\ Count("set_position") = 1
        /\ Count("set_size") = 1
        /\ \A i \in CallsOf("set_position"), j \in CallsOf("set_size") :
            /\ i < j
            /\ winPos = IF calls[i].ok THEN calls[i].arg ELSE prior.position
            /\ winSize = IF calls[j].ok THEN calls[j].arg ELSE prior.size

C5_Witness ==
    /\ pc = "done"
    /\ monitor # None
    /\ \E i \in CallsOf("set_position"), j \in CallsOf("set_size") :
        /\ ~calls[i].ok
        /\ calls[j].ok
        /\ winSize = calls[j].arg
        /\ winSize # prior.size
        /\ calls[i].arg # prior.position

\* C6: the routine terminates and returns Ok to the host in every execution,
\* whichever of the lookups, set_position, set_size and show fail.
C6_TerminatesOk ==
    /\ <>(pc = "done")
    /\ [](pc = "done" => ret = Some(Ok(<<>>)))
    /\ [](ret \in {None, Some(Ok(<<>>))})

C6_Witness ==
    /\ pc = "done"
    /\ ret = Some(Ok(<<>>))
    /\ curRes = Some(Err)
    /\ Yielded(priRes) # None
    /\ Count("set_position") = 1
    /\ Count("set_size") = 1
    /\ Count("show") = 1
    /\ \A i \in DOMAIN calls : calls[i].op # "primary_monitor" => ~calls[i].ok

\* C7 as stated: each of current_monitor, primary_monitor, set_position and
\* set_size is called exactly once in a run with a window.
C7_EachStepExactlyOnce ==
    (pc = "done" /\ window # None) =>
        /\ Count("current_monitor") = 1
        /\ Count("primary_monitor") = 1
        /\ Count("set_position") = 1
        /\ Count("set_size") = 1

\* C7 (amended): no fallible step is called more than once; in a run with a
\* window current_monitor is called exactly once, primary_monitor exactly
\* once if current_monitor yielded no monitor and otherwise not at all, and
\* set_position and set_size exactly once each if a monitor was obtained and
\* otherwise not at all.
C7_AtMostOnceAndWhenDue ==
    /\ \A op \in {"current_monitor", "primary_monitor",
                  "set_position", "set_size"} : Count(op) <= 1
    /\ (pc = "done" /\ window # None) =>
        /\ Count("current_monitor") = 1
        /\ Count("primary_monitor") = IF Yielded(curRes) = None THEN 1 ELSE 0
        /\ Count("set_position") = IF monitor # None THEN 1 ELSE 0
        /\ Count("set_size") = IF monitor # None THEN 1 ELSE 0

C7_Witness ==
    /\ pc = "done"
    /\ window # None
    /\ Yielded(curRes) = None
    /\ Count("primary_monitor") = 1
    /\ \E i \in CallsOf("set_position") : ~calls[i].ok
    /\ \E j \in CallsOf("set_size") : ~calls[j].ok

Hello == <<"H", "e", "l", "l", "o", ",", " ">>

Greeted ==
    <<"!", " ", "Y", "o", "u", "'", "v", "e", " ", "b", "e", "e", "n", " ",
      "g", "r", "e", "e", "t", "e", "d", " ", "f", "r", "o", "m", " ",
      "R", "u", "s", "t", "!">>

\* C8: for every name s, the empty one and those with braces included,
\* greet(s) is "Hello, " followed by s unmodified followed by
\* "! You've been greeted from Rust!".
C8_GreetIsConcatenation ==
    \A g \in greeting : g = Hello \o name \o Greeted

C8_Witness ==
    /\ greeting # None
    /\ name = <<"{", "{", "}">>

\* C9: when there is no window "main", no lookup, set_position, set_size or
\* show is made, the window state is untouched, and the routine returns Ok.
C9_NoWindowNoAction ==
    (window = None /\ pc \in {"return", "done"}) =>
        /\ calls = <<>>
        /\ curRes = None
        /\ priRes = None
        /\ monitor = None
        /\ winPos = prior.position
        /\ winSize = prior.size
        /\ winVisible = prior.visible
        /\ pc = "done" => ret = Some(Ok(<<>>))

C9_Witness ==
    /\ window = None
    /\ pc = "done"
    /\ ret = Some(Ok(<<>>))
    /\ ~winVisible

\* C10: set_position, set_size and show are each called at most once in a
\* run, and the position and the size passed are those of the work area of
\* one and the same monitor, the one a lookup returned.
C10_OnceEachFromOneMonitor ==
    /\ Count("set_position") <= 1
    /\ Count("set_size") <= 1
    /\ Count("show") <= 1
    /\ \A i \in CallsOf("set_position") \cup CallsOf("set_size") :
        \E m \in monitor :
            /\ m \in Yielded(curRes) \cup Yielded(priRes)
            /\ \A p \in CallsOf("set_position") :
                calls[p].arg = m.work_area.position
            /\ \A q \in CallsOf("set_size") :
                calls[q].arg = m.work_area.size

C10_Witness ==
    /\ pc = "done"
    /\ Count("set_position") = 1
    /\ Count("set_size") = 1
    /\ Count("show") = 1
    /\ \E m \in monitor :
        /\ m.work_area.size # m.size
        /\ winPos = m.work_area.position
        /\ winSize = m.work_area.size

====
